---- MODULE Spec2Model ----
(***************************************************************************)
(* A model of brungo: the annotation parser (parse.go), the program entry  *)
(* point (main.go) and the Bruno request file generator (bruno.go).        *)
(*                                                                         *)
(* Text is modelled as a sequence of tokens.  A token is a maximal run of  *)
(* characters of one class (a space, a slash, a colon, an @tag, an         *)
(* upper-case word, another word), so that the regular expressions and the *)
(* strings functions of the source can be computed on tokens exactly as    *)
(* the source computes them on characters.  Values the program stores      *)
(* (names, paths, descriptions, file names) are the strings obtained by    *)
(* concatenating tokens.                                                   *)
(***************************************************************************)
EXTENDS Integers, Sequences, FiniteSets, TLC

(***************************************************************************)
(* Bounds of the model.                                                    *)
(***************************************************************************)
MaxFiles == 2
MaxRuns == 2
MaxFaults == 1
MaxDocLines == 3
MaxCalls == 2

(***************************************************************************)
(* Character classes.                                                      *)
(***************************************************************************)
SpaceTokens == {" "}
UpperTokens == {"GET", "POST"}
LowerTokens == {"get", "users", "id", "a", "b", "T", "U"}
WordTokens == UpperTokens \cup LowerTokens \cup {"_"}
AtTokens == {"@", "@name", "@route", "@description", "@body"}

\* strings.ToLower on the method tokens of the model
ToLower(s) ==
    CASE s = "GET" -> "get"
      [] s = "POST" -> "post"
      [] OTHER -> s

RECURSIVE Concat(_)
\* the string a token sequence spells
Concat(toks) ==
    IF toks = <<>> THEN "" ELSE Head(toks) \o Concat(Tail(toks))

RECURSIVE SpanLen(_, _, _)
\* length of the longest run of tokens of class S starting at position from
SpanLen(text, from, S) ==
    IF from > Len(text) \/ from < 1 THEN 0
    ELSE IF text[from] \in S THEN 1 + SpanLen(text, from + 1, S)
    ELSE 0

\* strings.Index(text, tok): the first position of tok, 0 when absent (-1 in Go)
Index(text, tok) ==
    IF \E k \in 1..Len(text) : text[k] = tok
    THEN CHOOSE k \in 1..Len(text) :
            /\ text[k] = tok
            /\ \A j \in 1..(k - 1) : text[j] # tok
    ELSE 0

\* strings.IndexAny(text, "@"): the first position of a token holding an @
IndexAnyAt(text) ==
    IF \E k \in 1..Len(text) : text[k] \in AtTokens
    THEN CHOOSE k \in 1..Len(text) :
            /\ text[k] \in AtTokens
            /\ \A j \in 1..(k - 1) : text[j] \notin AtTokens
    ELSE 0

\* a variant that leaves the slashes in
RemoveSlashes_Keep(text) == text

\* strings.ReplaceAll(text, "/", "")
RemoveSlashes(text) == SelectSeq(text, LAMBDA t : t # "/")

RECURSIVE TrimLeft(_)
TrimLeft(text) ==
    IF text # <<>> /\ Head(text) \in SpaceTokens THEN TrimLeft(Tail(text))
    ELSE text

RECURSIVE TrimRight(_)
TrimRight(text) ==
    IF text # <<>> /\ text[Len(text)] \in SpaceTokens
    THEN TrimRight(SubSeq(text, 1, Len(text) - 1))
    ELSE text

\* strings.TrimSpace
TrimSpace(text) == TrimRight(TrimLeft(text))

(***************************************************************************)
(* The regular expressions of parse.go.  A match result is a record with   *)
(* ok = FALSE, or ok = TRUE and the captured groups.                       *)
(***************************************************************************)
NoMatch == [ok |-> FALSE]

\* `\s+(.+)` at position from: the spaces are greedy, and give one back
\* when nothing else is left for (.+)
RestAfterSpaces(text, from) ==
    LET k == SpanLen(text, from, SpaceTokens)
        d == from + k
    IN  IF k = 0 THEN NoMatch
        ELSE IF d <= Len(text) THEN [ok |-> TRUE, cap |-> SubSeq(text, d, Len(text))]
        ELSE IF k >= 2 THEN [ok |-> TRUE, cap |-> <<text[Len(text)]>>]
        ELSE NoMatch

\* namePattern = `@name\s+(.+)` tried at position i
NameMatchAt(text, i) ==
    IF text[i] # "@name" THEN NoMatch ELSE RestAfterSpaces(text, i + 1)

\* routePattern = `@route\s+([A-Z]+)\s+(.+)` tried at position i
RouteMatchAt(text, i) ==
    LET k1 == SpanLen(text, i + 1, SpaceTokens)
        b == i + 1 + k1
        k2 == SpanLen(text, b, UpperTokens)
        rest == RestAfterSpaces(text, b + k2)
    IN  IF text[i] # "@route" \/ k1 = 0 \/ k2 = 0 \/ ~rest.ok THEN NoMatch
        ELSE [ok |-> TRUE, method |-> SubSeq(text, b, b + k2 - 1), cap |-> rest.cap]

\* bodyPattern = `@body\s+(\w+)` tried at position i
BodyMatchAt(text, i) ==
    LET k1 == SpanLen(text, i + 1, SpaceTokens)
        b == i + 1 + k1
        k2 == SpanLen(text, b, WordTokens)
    IN  IF text[i] # "@body" \/ k1 = 0 \/ k2 = 0 THEN NoMatch
        ELSE [ok |-> TRUE, cap |-> SubSeq(text, b, b + k2 - 1)]

\* FindStringSubmatch: the leftmost position where the pattern matches
namePattern(text) ==
    LET hits == {i \in 1..Len(text) : NameMatchAt(text, i).ok}
    IN  IF hits = {} THEN NoMatch
        ELSE NameMatchAt(text, CHOOSE i \in hits : \A j \in hits : i <= j)

routePattern(text) ==
    LET hits == {i \in 1..Len(text) : RouteMatchAt(text, i).ok}
    IN  IF hits = {} THEN NoMatch
        ELSE RouteMatchAt(text, CHOOSE i \in hits : \A j \in hits : i <= j)

bodyPattern(text) ==
    LET hits == {i \in 1..Len(text) : BodyMatchAt(text, i).ok}
    IN  IF hits = {} THEN NoMatch
        ELSE BodyMatchAt(text, CHOOSE i \in hits : \A j \in hits : i <= j)

(***************************************************************************)
(* Go maps from string to string.                                          *)
(***************************************************************************)
EmptyMap == [k \in {} |-> ""]

\* m[k], the zero value "" when k is absent
Get(m, k) == IF k \in DOMAIN m THEN m[k] ELSE ""

\* m[k] = v
Put(m, k, v) == [x \in DOMAIN m \cup {k} |-> IF x = k THEN v ELSE m[x]]

(***************************************************************************)
(* extractAnnotations: one iteration of its loop over the comment lines,   *)
(* on the loop state st = [annotations, parsingDescription].  The value of *)
(* route_path is kept as its tokens, the other values as strings: the      *)
(* generator replaces characters of the path.                              *)
(***************************************************************************)
ExtractLine(st, text) ==
    LET nm == namePattern(text)
        rt == routePattern(text)
        bd == bodyPattern(text)
        a1 == IF nm.ok THEN Put(st.annotations, "name", Concat(nm.cap))
              ELSE st.annotations
        a2 == IF rt.ok
              THEN Put(Put(a1, "route_method", Concat(rt.method)),
                       "route_path", rt.cap)
              ELSE a1
        a3 == IF bd.ok THEN Put(a2, "body", Concat(bd.cap)) ELSE a2
        descIndex == Index(text, "@description")
        after == IF descIndex # 0 THEN SubSeq(text, descIndex + 1, Len(text))
                 ELSE text
        nextTagIndex == IndexAnyAt(after)
        cut == IF nextTagIndex # 0 THEN SubSeq(after, 1, nextTagIndex - 1)
               ELSE after
        descText == TrimSpace(RemoveSlashes(cut))
    IN  IF descIndex # 0 \/ st.parsingDescription
        THEN [annotations |->
                 Put(a3, "description",
                     Get(a3, "description") \o Concat(descText) \o "\n"),
              parsingDescription |-> (nextTagIndex = 0)]
        ELSE [annotations |-> a3, parsingDescription |-> st.parsingDescription]

ExtractStart == [annotations |-> EmptyMap, parsingDescription |-> FALSE]

RECURSIVE ExtractFrom(_, _)
ExtractFrom(st, lines) ==
    IF lines = <<>> THEN st
    ELSE ExtractFrom(ExtractLine(st, Head(lines)), Tail(lines))

\* extractAnnotations(comments)
extractAnnotations(comments) == ExtractFrom(ExtractStart, comments).annotations

(***************************************************************************)
(* The source tree: what go/parser hands to the program.  A file is        *)
(* [ok, decls]: ok says whether it parses, decls are its declarations in   *)
(* the order ast.Inspect visits them.  A function declaration is           *)
(* [kind |-> "func", name, hasDoc, doc], doc being the comment lines       *)
(* (Comment.Text, the // marker included); a type declaration is           *)
(* [kind |-> "type", name, isStruct, fields].                              *)
(***************************************************************************)
\* a line comment: the marker, a space, the text
M(toks) == <<"/", "/", " ">> \o toks

Func(name, doc) == [kind |-> "func", name |-> name, hasDoc |-> TRUE, doc |-> doc]
FuncNoDoc(name) == [kind |-> "func", name |-> name, hasDoc |-> FALSE, doc |-> <<>>]
Struct(name, fields) ==
    [kind |-> "type", name |-> name, isStruct |-> TRUE, fields |-> fields]
NonStruct(name) ==
    [kind |-> "type", name |-> name, isStruct |-> FALSE, fields |-> <<>>]

\* field.Type: the node kind of the type expression and the name it carries
Ident(n) == [kind |-> "Ident", name |-> n]
SelectorExpr(n) == [kind |-> "SelectorExpr", name |-> n]
ArrayType == [kind |-> "ArrayType", name |-> ""]
MapType == [kind |-> "MapType", name |-> ""]
StarExpr == [kind |-> "StarExpr", name |-> ""]

\* a field declaration: its names, its type, its tag as the key:"value"
\* pairs reflect.StructTag reads (a value being its comma separated
\* segments), and its doc comment lines
Field(names, type, tag, doc) ==
    [Names |-> names, Type |-> type, Tag |-> tag, Doc |-> doc]
Pair(key, segs) == [key |-> key, segs |-> segs]

FieldsA ==
    << Field(<<"Amount">>, Ident("string"),
             <<Pair("json", <<"Amount__c">>)>>, <<M(<<"a">>), M(<<"b">>)>>),
       Field(<<"Memo">>, Ident("string"),
             <<Pair("json", <<"Memo__c", "omitempty">>)>>, <<>>),
       Field(<<>>, Ident("Base"), <<>>, <<>>),
       Field(<<"Count", "Total">>, Ident("int"),
             <<Pair("binding", <<"required">>)>>, <<>>) >>

FieldsB ==
    << Field(<<"Items">>, ArrayType, <<Pair("json", <<"", "omitempty">>)>>, <<>>),
       Field(<<"Meta">>, MapType, <<Pair("json", <<"Items">>)>>, <<>>),
       Field(<<"When">>, SelectorExpr("Time"), <<>>, <<>>),
       Field(<<"Next">>, StarExpr, <<Pair("binding", <<"omitempty">>)>>, <<>>) >>

DocUsers ==
    << M(<<"@name", " ", "users">>),
       M(<<"@route", " ", "GET", " ", "/", "users">>),
       M(<<"@body", " ", "T">>) >>

DocUserById ==
    << M(<<"@description", " ", "a", " ", "b">>),
       M(<<"b">>),
       M(<<"@route", " ", "POST", " ", "/", "users", "/", ":", "id">>),
       M(<<"@body", " ", "T">>) >>

DocUserUnderscoreId ==
    << M(<<"@route", " ", "POST", " ", "/", "users", "/", "_", "id">>),
       M(<<"@body", " ", "U">>) >>

DocNoBody == << M(<<"@route", " ", "GET", " ", "/", "a">>) >>

DocNoRoute ==
    << M(<<"@name", " ", "a">>), M(<<"@description", " ", "b">>) >>

DocLowerMethod == << M(<<"@route", " ", "get", " ", "/", "a">>) >>

FileHandlers ==
    [ok |-> TRUE,
     decls |-> << Func("A", DocUsers), FuncNoDoc("B"), Func("C", DocUserById) >>]

FileTypes ==
    [ok |-> TRUE,
     decls |-> << NonStruct("T"), Struct("T", FieldsA), Struct("T", FieldsB) >>]

FileMixed ==
    [ok |-> TRUE,
     decls |-> << Struct("T", FieldsB), Func("D", DocUserUnderscoreId),
                  Func("E", DocNoRoute) >>]

FilePlain ==
    [ok |-> TRUE,
     decls |-> << Func("F", DocLowerMethod), Func("G", DocNoBody), NonStruct("U") >>]

FileMalformed == [ok |-> FALSE, decls |-> <<>>]

FileSet == {FileHandlers, FileTypes, FileMixed, FilePlain, FileMalformed}

\* the trees of the model: the .go files of the input directory in the
\* order filepath.Walk visits them
Trees == UNION {[1..n -> FileSet] : n \in 1..MaxFiles}

(***************************************************************************)
(* ParseStructFromFile and FindStruct.                                     *)
(***************************************************************************)
\* a nil *RequestBody
Nil == [nil |-> TRUE]

\* reflect.StructTag.Lookup(key): the first pair of the tag with that key
Lookup(tag, key) ==
    LET hits == {k \in 1..Len(tag) : tag[k].key = key}
    IN  IF hits = {} THEN [ok |-> FALSE, segs |-> <<>>]
        ELSE [ok |-> TRUE, segs |-> tag[CHOOSE k \in hits : \A j \in hits : k <= j].segs]

RECURSIVE JoinWith(_, _)
\* strings.Join(parts, sep)
JoinWith(parts, sep) ==
    IF parts = <<>> THEN ""
    ELSE IF Len(parts) = 1 THEN parts[1]
    ELSE parts[1] \o sep \o JoinWith(Tail(parts), sep)

\* strings.Contains(bindingTag, "required"), on the segments of the model
ContainsRequired(segs) == \E k \in 1..Len(segs) : segs[k] \in {"required", "required_if"}

\* strings.TrimPrefix(text, "//")
TrimCommentPrefix(text) ==
    IF Len(text) >= 2 /\ text[1] = "/" /\ text[2] = "/"
    THEN SubSeq(text, 3, Len(text)) ELSE text

\* the loop over field.Doc.List
FieldDescription(doc) ==
    JoinWith([k \in 1..Len(doc) |-> Concat(TrimSpace(TrimCommentPrefix(doc[k])))], " ")

\* a variant without the case of a qualified type
FieldType_NoSelector(type) ==
    CASE type.kind = "Ident" -> type.name
      [] type.kind = "ArrayType" -> "array"
      [] type.kind = "MapType" -> "map"
      [] OTHER -> "unknown"

\* the switch on field.Type
FieldType(type) ==
    CASE type.kind = "Ident" -> type.name
      [] type.kind = "SelectorExpr" -> type.name
      [] type.kind = "ArrayType" -> "array"
      [] type.kind = "MapType" -> "map"
      [] OTHER -> "unknown"

\* the RequestBodyField built from one field declaration that has names
RequestField(field) ==
    LET jsonTag == Lookup(field.Tag, "json")
        bindingTag == Lookup(field.Tag, "binding")
        fieldName == field.Names[1]
        jsonName == IF jsonTag.ok /\ jsonTag.segs # <<>> /\ jsonTag.segs[1] # ""
                    THEN jsonTag.segs[1] ELSE fieldName
        t1 == IF jsonTag.ok THEN Put(EmptyMap, "json", JoinWith(jsonTag.segs, ","))
              ELSE EmptyMap
        t2 == IF bindingTag.ok THEN Put(t1, "binding", JoinWith(bindingTag.segs, ","))
              ELSE t1
    IN  [Name |-> fieldName,
         Type |-> FieldType(field.Type),
         JSONName |-> jsonName,
         Required |-> bindingTag.ok /\ ContainsRequired(bindingTag.segs),
         Description |-> FieldDescription(field.Doc),
         Tags |-> t2]

RECURSIVE StructFields(_)
\* the loop over structType.Fields.List: embedded fields are skipped
StructFields(fields) ==
    IF fields = <<>> THEN <<>>
    ELSE IF Len(Head(fields).Names) = 0 THEN StructFields(Tail(fields))
    ELSE <<RequestField(Head(fields))>> \o StructFields(Tail(fields))

\* a variant without the check that the type is a struct
IsStructNamed_AnyType(d, structName) ==
    d.kind = "type" /\ d.name = structName

\* is declaration d a struct type named structName
IsStructNamed(d, structName) ==
    d.kind = "type" /\ d.name = structName /\ d.isStruct

\* a variant that keeps inspecting after a match: the last struct type of
\* that name wins
ParseStructFromFile_Last(file, structName) ==
    LET hits == {k \in 1..Len(file.decls) : IsStructNamed(file.decls[k], structName)}
        last == CHOOSE k \in hits : \A j \in hits : k >= j
    IN  IF hits = {} THEN Nil
        ELSE [TypeName |-> structName,
              Fields |-> StructFields(file.decls[last].fields),
              Description |-> ""]

\* ParseStructFromFile, on a file that parses: the first struct type of
\* that name the inspection meets, nil when there is none
ParseStructFromFile(file, structName) ==
    LET hits == {k \in 1..Len(file.decls) : IsStructNamed(file.decls[k], structName)}
        first == CHOOSE k \in hits : \A j \in hits : k <= j
    IN  IF hits = {} THEN Nil
        ELSE [TypeName |-> structName,
              Fields |-> StructFields(file.decls[first].fields),
              Description |-> ""]

\* parser.ParseFile fails on a malformed file, and when the read fails
ParseFails(file, fault) == ~file.ok \/ fault

RECURSIVE FindStructFrom(_, _, _, _, _)
\* the walk of FindStruct from file k on, foundStruct being what was found
\* so far and faultAt the file whose read fails (0: none)
FindStructFrom(files, structName, k, foundStruct, faultAt) ==
    IF k > Len(files) THEN [err |-> FALSE, body |-> foundStruct]
    ELSE IF foundStruct # Nil
    THEN FindStructFrom(files, structName, k + 1, foundStruct, faultAt)
    ELSE IF ParseFails(files[k], k = faultAt) THEN [err |-> TRUE, body |-> Nil]
    ELSE FindStructFrom(files, structName, k + 1,
                        ParseStructFromFile(files[k], structName), faultAt)

\* FindStruct(dirPath, structName)
FindStruct(files, structName, faultAt) ==
    FindStructFrom(files, structName, 1, Nil, faultAt)

(***************************************************************************)
(* FindHandlers.                                                           *)
(***************************************************************************)
\* a variant without the check that the annotations hold a route
RoutesOfDecl_NoRouteCheck(d) ==
    IF d.kind # "func" \/ ~d.hasDoc THEN <<>>
    ELSE LET annotations == extractAnnotations(d.doc)
         IN  << [Name |-> Get(annotations, "name"),
                 Method |-> Get(annotations, "route_method"),
                 Path |-> IF "route_path" \in DOMAIN annotations
                          THEN annotations["route_path"] ELSE <<>>,
                 Handler |-> d.name,
                 Description |-> Get(annotations, "description"),
                 BodyType |-> Get(annotations, "body"),
                 Tags |-> EmptyMap,
                 RequestBody |-> Nil] >>

\* the routes one declaration contributes
RoutesOfDecl(d) ==
    IF d.kind # "func" \/ ~d.hasDoc THEN <<>>
    ELSE LET annotations == extractAnnotations(d.doc)
         IN  IF "route_method" \in DOMAIN annotations
                /\ "route_path" \in DOMAIN annotations
             THEN << [Name |-> Get(annotations, "name"),
                      Method |-> annotations["route_method"],
                      Path |-> annotations["route_path"],
                      Handler |-> d.name,
                      Description |-> Get(annotations, "description"),
                      BodyType |-> Get(annotations, "body"),
                      Tags |-> EmptyMap,
                      RequestBody |-> Nil] >>
             ELSE <<>>

RECURSIVE RoutesOfDecls(_)
\* the routes ast.Inspect appends for the declarations of a file
RoutesOfDecls(decls) ==
    IF decls = <<>> THEN <<>>
    ELSE RoutesOfDecl(Head(decls)) \o RoutesOfDecls(Tail(decls))

(***************************************************************************)
(* The Bruno generator (bruno.go).                                         *)
(***************************************************************************)
BaseURL == "api.example.com"

\* strings.ReplaceAll(text, old, new) for a one character old
ReplaceAll(text, old, new) == [k \in 1..Len(text) |-> IF text[k] = old THEN new ELSE text[k]]

\* the filePath of GenerateRequestFile, inside the output directory
FilePath(route) ==
    ToLower(route.Method) \o "_"
        \o Concat(ReplaceAll(ReplaceAll(route.Path, "/", "_"), ":", "_")) \o ".bru"

\* the default value of generateRequestJSONBodySection for a field type
DefaultValue(type) ==
    CASE ToLower(type) = "string" -> "\"\""
      [] ToLower(type) \in {"int", "int64", "int32", "float64", "float32"} -> "0"
      [] ToLower(type) = "bool" -> "false"
      [] ToLower(type) \in {"array", "slice"} -> "[]"
      [] ToLower(type) = "map" -> "{}"
      [] OTHER -> "null"

RECURSIVE BodyMap_FirstWins(_, _)
\* a variant that keeps the first value put for a key
BodyMap_FirstWins(body, fields) ==
    IF fields = <<>> THEN body
    ELSE IF Head(fields).JSONName \in DOMAIN body
    THEN BodyMap_FirstWins(body, Tail(fields))
    ELSE BodyMap_FirstWins(
             Put(body, Head(fields).JSONName, DefaultValue(Head(fields).Type)),
             Tail(fields))

RECURSIVE BodyMap(_, _)
\* the loop of generateRequestJSONBodySection filling the map body
BodyMap(body, fields) ==
    IF fields = <<>> THEN body
    ELSE BodyMap(Put(body, Head(fields).JSONName, DefaultValue(Head(fields).Type)),
                 Tail(fields))

\* the JSON names of the model in the byte order of Go strings
KeyOrder ==
    <<"Amount", "Amount__c", "Count", "Items", "Memo", "Memo__c", "Meta", "Next",
      "Total", "When">>

\* the place of a key in that order
KeyRank(key) == CHOOSE n \in 1..Len(KeyOrder) : KeyOrder[n] = key

RECURSIVE SortedKeys(_)
\* the keys of a set in ascending order
SortedKeys(keys) ==
    IF keys = {} THEN <<>>
    ELSE LET least == CHOOSE x \in keys : \A y \in keys : KeyRank(x) <= KeyRank(y)
         IN  <<least>> \o SortedKeys(keys \ {least})

\* json.MarshalIndent(body, ...): the entries of a map, sorted by key
MarshalBody(body) ==
    [n \in 1..Cardinality(DOMAIN body) |->
        [key |-> SortedKeys(DOMAIN body)[n], value |-> body[SortedKeys(DOMAIN body)[n]]]]

\* what GenerateRequestFile writes: the contents of the four sections
Content(route) ==
    [meta |-> [name |-> route.Name, type |-> "http"],
     request |-> [verb |-> ToLower(route.Method),
                  URL |-> BaseURL \o Concat(route.Path),
                  body |-> IF route.RequestBody # Nil THEN "json" ELSE "",
                  auth |-> "none"],
     hasBody |-> route.RequestBody # Nil,
     body |-> IF route.RequestBody # Nil
              THEN MarshalBody(BodyMap(EmptyMap, route.RequestBody.Fields)) ELSE <<>>,
     docs |-> route.Description]

\* the file os.Create leaves when the write after it fails
Truncated == [truncated |-> TRUE]

(***************************************************************************)
(* The program: main runs ParseDirectory on a new Parser and renders the   *)
(* routes it returns.                                                      *)
(***************************************************************************)
VARIABLES
    tree,        \* the source tree of the input directory
    run,         \* the number of the run of the program
    pc,          \* where the run is: start, discover, assemble, render, done, exit
    faults,      \* the I/O failures that happened so far
    routes,      \* p.routes
    fileIdx,     \* the file the first walk of ParseDirectory is at
    i,           \* the index of the loop over p.routes in ParseDirectory
    result,      \* what ParseDirectory returned to main
    findCalls,   \* the structName of every FindStruct call of this run
    r,           \* the index of the loop over routes in main
    disk,        \* the output directory: file path to contents
    renderLog,   \* the GenerateRequestFile calls of this run and their outcome
    prev,        \* what ParseDirectory returned in the previous run
    doc,         \* the comment group extractAnnotations is called on
    ln,          \* the line its loop is at
    st,          \* its loop state: annotations and parsingDescription
    calls        \* for each earlier ParseDirectory call on the Parser: did it fail

annotVars == <<doc, ln, st>>

vars == <<tree, run, pc, faults, routes, fileIdx, i, result, findCalls, r, disk,
          renderLog, prev, doc, ln, st, calls>>

NoResult == [returned |-> FALSE, err |-> FALSE, routes |-> <<>>]

\* a variant that keeps the routes of the Parser of the run before
NewParser_Reused == [routes |-> routes]

\* NewParser()
NewParser == [routes |-> <<>>]

\* a variant that returns p.routes with the error
ParseError_WithRoutes == [returned |-> TRUE, err |-> TRUE, routes |-> routes]

\* return nil, err
ParseError == [returned |-> TRUE, err |-> TRUE, routes |-> <<>>]

\* return p.routes, nil
ParseSuccess == [returned |-> TRUE, err |-> FALSE, routes |-> routes]

\* a variant that keeps the routes of the last file only
AppendRoutes_Replace(old, new) == new

\* a variant that puts the new routes first
AppendRoutes_Prepend(old, new) == new \o old

\* p.routes = append(p.routes, route), for the routes of one file
AppendRoutes(old, new) == old \o new

\* a variant that leaves the loop at the first error
AfterRenderError_Abort(k) == Len(result.routes) + 1

\* main's loop after GenerateRequestFile returned an error for route k: continue
AfterRenderError(k) == k + 1

Init ==
    /\ tree \in Trees
    /\ run = 1
    /\ pc = "start"
    /\ faults = 0
    /\ routes = <<>>
    /\ fileIdx = 1
    /\ i = 1
    /\ result = NoResult
    /\ findCalls = <<>>
    /\ r = 1
    /\ disk = EmptyMap
    /\ renderLog = <<>>
    /\ prev = NoResult
    /\ doc = <<>>
    /\ ln = 1
    /\ st = ExtractStart
    /\ calls = <<>>

\* main, up to the call of ParseDirectory
Main ==
    /\ pc = "start"
    /\ pc' = "discover"
    /\ routes' = NewParser.routes
    /\ fileIdx' = 1
    /\ i' = 1
    /\ r' = 1
    /\ result' = NoResult
    /\ findCalls' = <<>>
    /\ renderLog' = <<>>
    /\ calls' = <<>>
    /\ UNCHANGED <<tree, run, faults, disk, prev>>
    /\ UNCHANGED annotVars

\* the walk callback of ParseDirectory on a .go file that parses
FindHandlers ==
    /\ pc = "discover"
    /\ fileIdx <= Len(tree)
    /\ ~ParseFails(tree[fileIdx], FALSE)
    /\ routes' = AppendRoutes(routes, RoutesOfDecls(tree[fileIdx].decls))
    /\ fileIdx' = fileIdx + 1
    /\ UNCHANGED <<tree, run, pc, faults, i, result, findCalls, r, disk, renderLog, prev>>
    /\ UNCHANGED <<annotVars, calls>>

\* the walk callback on a file that fails to parse: ParseDirectory returns
\* the error, main logs it and exits
FindHandlersError ==
    /\ pc = "discover"
    /\ fileIdx <= Len(tree)
    /\ \E fault \in BOOLEAN :
          /\ fault => (faults < MaxFaults /\ tree[fileIdx].ok)
          /\ ParseFails(tree[fileIdx], fault)
          /\ faults' = IF fault THEN faults + 1 ELSE faults
    /\ result' = ParseError
    /\ pc' = "exit"
    /\ UNCHANGED <<tree, run, routes, fileIdx, i, findCalls, r, disk, renderLog, prev>>
    /\ UNCHANGED <<annotVars, calls>>

\* the first walk is over
WalkDone ==
    /\ pc = "discover"
    /\ fileIdx > Len(tree)
    /\ pc' = "assemble"
    /\ i' = 1
    /\ UNCHANGED <<tree, run, faults, routes, fileIdx, result, findCalls, r, disk,
                   renderLog, prev>>
    /\ UNCHANGED <<annotVars, calls>>

\* the loop over p.routes: a route without body type
AssembleSkip ==
    /\ pc = "assemble"
    /\ i <= Len(routes)
    /\ routes[i].BodyType = ""
    /\ i' = i + 1
    /\ UNCHANGED <<tree, run, pc, faults, routes, fileIdx, result, findCalls, r, disk,
                   renderLog, prev>>
    /\ UNCHANGED <<annotVars, calls>>

\* the loop over p.routes: FindStruct returns without error
AssembleResolve ==
    /\ pc = "assemble"
    /\ i <= Len(routes)
    /\ routes[i].BodyType # ""
    /\ LET found == FindStruct(tree, routes[i].BodyType, 0)
       IN  /\ ~found.err
           /\ routes' = IF found.body # Nil
                        THEN [routes EXCEPT ![i].RequestBody = found.body]
                        ELSE routes
    /\ findCalls' = Append(findCalls, routes[i].BodyType)
    /\ i' = i + 1
    /\ UNCHANGED <<tree, run, pc, faults, fileIdx, result, r, disk, renderLog, prev>>
    /\ UNCHANGED <<annotVars, calls>>

\* the loop over p.routes: FindStruct returns an error
AssembleError ==
    /\ pc = "assemble"
    /\ i <= Len(routes)
    /\ routes[i].BodyType # ""
    /\ \E faultAt \in 0..Len(tree) :
          /\ faultAt # 0 => (faults < MaxFaults /\ tree[faultAt].ok)
          /\ FindStruct(tree, routes[i].BodyType, faultAt).err
          /\ faults' = IF faultAt # 0 THEN faults + 1 ELSE faults
    /\ findCalls' = Append(findCalls, routes[i].BodyType)
    /\ result' = ParseError
    /\ pc' = "exit"
    /\ UNCHANGED <<tree, run, routes, fileIdx, i, r, disk, renderLog, prev>>
    /\ UNCHANGED <<annotVars, calls>>

\* ParseDirectory returns p.routes; main goes on to its loop
Return ==
    /\ pc = "assemble"
    /\ i > Len(routes)
    /\ result' = ParseSuccess
    /\ pc' = "render"
    /\ r' = 1
    /\ UNCHANGED <<tree, run, faults, routes, fileIdx, i, findCalls, disk, renderLog, prev>>
    /\ UNCHANGED <<annotVars, calls>>

\* main's loop: GenerateRequestFile writes the file of route r
Render ==
    /\ pc = "render"
    /\ r <= Len(result.routes)
    /\ disk' = Put(disk, FilePath(result.routes[r]), Content(result.routes[r]))
    /\ renderLog' = Append(renderLog, [route |-> r, path |-> FilePath(result.routes[r]),
                                       outcome |-> "written"])
    /\ r' = r + 1
    /\ UNCHANGED <<tree, run, pc, faults, routes, fileIdx, i, result, findCalls, prev>>
    /\ UNCHANGED <<annotVars, calls>>

\* main's loop: GenerateRequestFile fails before the file is created
\* (os.MkdirAll or os.Create), or after it (WriteString)
RenderError ==
    /\ pc = "render"
    /\ r <= Len(result.routes)
    /\ faults < MaxFaults
    /\ faults' = faults + 1
    /\ \E created \in BOOLEAN :
          disk' = IF created THEN Put(disk, FilePath(result.routes[r]), Truncated)
                  ELSE disk
    /\ renderLog' = Append(renderLog, [route |-> r, path |-> FilePath(result.routes[r]),
                                       outcome |-> "error"])
    /\ r' = AfterRenderError(r)
    /\ UNCHANGED <<tree, run, pc, routes, fileIdx, i, result, findCalls, prev>>
    /\ UNCHANGED <<annotVars, calls>>

\* main's loop is over
RenderDone ==
    /\ pc = "render"
    /\ r > Len(result.routes)
    /\ pc' = "done"
    /\ UNCHANGED <<tree, run, faults, routes, fileIdx, i, result, findCalls, r, disk,
                   renderLog, prev>>
    /\ UNCHANGED <<annotVars, calls>>

\* the program is run again on the same tree and output directory
Rerun ==
    /\ pc \in {"done", "exit"}
    /\ run < MaxRuns
    /\ run' = run + 1
    /\ prev' = result
    /\ pc' = "start"
    /\ UNCHANGED <<tree, faults, routes, fileIdx, i, result, findCalls, r, disk, renderLog>>
    /\ UNCHANGED <<annotVars, calls>>

Next ==
    \/ Main
    \/ FindHandlers
    \/ FindHandlersError
    \/ WalkDone
    \/ AssembleSkip
    \/ AssembleResolve
    \/ AssembleError
    \/ Return
    \/ Render
    \/ RenderError
    \/ RenderDone
    \/ Rerun

Spec == Init /\ [][Next]_vars

(***************************************************************************)
(* A caller other than main: ParseDirectory called again and again on one  *)
(* Parser, on the same tree.                                               *)
(***************************************************************************)
\* ParseDirectory has returned, with routes or with an error, and is called
\* again on the same Parser
ParseDirectoryAgain ==
    /\ pc \in {"render", "exit"}
    /\ Len(calls) < MaxCalls
    /\ calls' = Append(calls, result.err)
    /\ pc' = "discover"
    /\ fileIdx' = 1
    /\ i' = 1
    /\ result' = NoResult
    /\ findCalls' = <<>>
    /\ UNCHANGED <<tree, run, faults, routes, r, disk, renderLog, prev>>
    /\ UNCHANGED annotVars

NextLib ==
    \/ Main
    \/ FindHandlers
    \/ FindHandlersError
    \/ WalkDone
    \/ AssembleSkip
    \/ AssembleResolve
    \/ AssembleError
    \/ Return
    \/ ParseDirectoryAgain

SpecLib == Init /\ [][NextLib]_vars

(***************************************************************************)
(* extractAnnotations on its own: the loop over the lines of a comment     *)
(* group, one iteration a step, for every comment group of at most         *)
(* MaxDocLines lines of LineSet.                                           *)
(***************************************************************************)
LineSet ==
    { M(<<"@description", " ", "a", " ", "b">>),
      M(<<"@description">>),
      M(<<"b">>),
      M(<<" ", "a", "/", "b", " ">>),
      M(<<"@route", " ", "GET", " ", "/", "a">>),
      M(<<"a", "@", "b">>) }

Docs == UNION {[1..n -> LineSet] : n \in 1..MaxDocLines}

InitAnnot ==
    /\ doc \in Docs
    /\ ln = 1
    /\ st = ExtractStart
    /\ tree = <<>>
    /\ run = 1
    /\ pc = "extract"
    /\ faults = 0
    /\ routes = <<>>
    /\ fileIdx = 1
    /\ i = 1
    /\ result = NoResult
    /\ findCalls = <<>>
    /\ r = 1
    /\ disk = EmptyMap
    /\ renderLog = <<>>
    /\ prev = NoResult
    /\ calls = <<>>

\* one iteration of the loop of extractAnnotations
ExtractStep ==
    /\ pc = "extract"
    /\ ln <= Len(doc)
    /\ st' = ExtractLine(st, doc[ln])
    /\ ln' = ln + 1
    /\ UNCHANGED <<tree, run, pc, faults, routes, fileIdx, i, result, findCalls, r,
                   disk, renderLog, prev, doc, calls>>

NextAnnot == ExtractStep

SpecAnnot == InitAnnot /\ [][NextAnnot]_vars

(***************************************************************************)
(* Properties.                                                             *)
(***************************************************************************)
\* ParseDirectory returned its routes without error
Succeeded == result.returned /\ ~result.err

RECURSIVE AllDecls(_)
\* the declarations of the tree in the order of the walk
AllDecls(files) ==
    IF files = <<>> THEN <<>> ELSE Head(files).decls \o AllDecls(Tail(files))

\* how many times name occurs in the sequence log
Occurrences(log, name) == Cardinality({k \in 1..Len(log) : log[k] = name})

\* C1: in one run of ParseDirectory, FindStruct is invoked exactly once for
\* each distinct body type name, and the routes that share a body type have
\* equal request bodies.
C1_ResolvedOncePerType ==
    Succeeded =>
        /\ \A k \in 1..Len(result.routes) :
              result.routes[k].BodyType # ""
                  => Occurrences(findCalls, result.routes[k].BodyType) = 1
        /\ \A k, l \in 1..Len(result.routes) :
              result.routes[k].BodyType = result.routes[l].BodyType
                  => result.routes[k].RequestBody = result.routes[l].RequestBody

\* a struct type of that name is declared somewhere in the tree
StructExists(name) ==
    \E f \in 1..Len(tree) : \E d \in 1..Len(tree[f].decls) :
        /\ tree[f].decls[d].kind = "type"
        /\ tree[f].decls[d].name = name
        /\ tree[f].decls[d].isStruct

\* C2: after ParseDirectory returned without error, a route has a request
\* body if and only if it names a body type and a struct of that name is in
\* the tree; a body type without match leaves the route in the list, without
\* request body, and the later routes are still assembled.
C2_BodyIffStructExists ==
    Succeeded =>
        \A k \in 1..Len(result.routes) :
            (result.routes[k].RequestBody # Nil)
                <=> (/\ result.routes[k].BodyType # ""
                     /\ StructExists(result.routes[k].BodyType))

\* a route whose body type is not in the tree, followed by an assembled one
C2_Witness ==
    /\ Succeeded
    /\ \E k, l \in 1..Len(result.routes) :
          /\ k < l
          /\ result.routes[k].BodyType # ""
          /\ result.routes[k].RequestBody = Nil
          /\ result.routes[l].RequestBody # Nil

\* the doc comment of declaration d carries an @route tag
HasRouteTag(d) ==
    /\ d.kind = "func"
    /\ d.hasDoc
    /\ \E k \in 1..Len(d.doc) : \E t \in 1..Len(d.doc[k]) : d.doc[k][t] = "@route"

\* the declarations of the files the first walk is done with
WalkedDecls == AllDecls(SubSeq(tree, 1, fileIdx - 1))

\* C3: a route comes only from a function declaration whose doc comment
\* carries an @route tag, and every route of the list has its method and its
\* path set.
C3_RouteOnlyFromRouteTag ==
    /\ \A k \in 1..Len(routes) :
          /\ routes[k].Method # ""
          /\ routes[k].Path # <<>>
          /\ \E d \in 1..Len(WalkedDecls) :
                /\ HasRouteTag(WalkedDecls[d])
                /\ WalkedDecls[d].name = routes[k].Handler
    /\ Len(routes) <= Cardinality({d \in 1..Len(WalkedDecls) :
                                      HasRouteTag(WalkedDecls[d])})

\* the walk went through functions without doc comment or without @route
\* tag, and through one with it
C3_Witness ==
    /\ pc = "assemble"
    /\ routes # <<>>
    /\ \E d \in 1..Len(WalkedDecls) :
          WalkedDecls[d].kind = "func" /\ ~WalkedDecls[d].hasDoc
    /\ \E d \in 1..Len(WalkedDecls) :
          WalkedDecls[d].kind = "func" /\ WalkedDecls[d].hasDoc
              /\ ~HasRouteTag(WalkedDecls[d])

RECURSIVE StubsOf(_)
\* the route stubs of a sequence of declarations, in their order
StubsOf(decls) ==
    IF decls = <<>> THEN <<>>
    ELSE RoutesOfDecl(Head(decls)) \o StubsOf(Tail(decls))

\* the routes without what the assembly attached
Stubs(rs) == [k \in 1..Len(rs) |-> [rs[k] EXCEPT !.RequestBody = Nil]]

\* C4: the routes ParseDirectory returns are in discovery order, files in
\* the order of the walk and declarations in their order in the file; the
\* assembly attaches request bodies and neither reorders, adds nor removes.
C4_DiscoveryOrder ==
    Succeeded => Stubs(result.routes) = StubsOf(AllDecls(tree))

\* routes of two different files, one of them with a request body
C4_Witness ==
    /\ Succeeded
    /\ Len(tree) >= 2
    /\ RoutesOfDecls(tree[1].decls) # <<>>
    /\ RoutesOfDecls(tree[2].decls) # <<>>
    /\ RoutesOfDecls(tree[1].decls) # RoutesOfDecls(tree[2].decls)
    /\ \E k \in 1..Len(result.routes) : result.routes[k].RequestBody # Nil

\* C5: when a file fails to parse, in the discovery or in the type
\* resolution, ParseDirectory returns no routes and the run ends without a
\* call of GenerateRequestFile, also for the routes found before the file.
C5_NoPartialOutput ==
    result.err =>
        /\ result.routes = <<>>
        /\ renderLog = <<>>
        /\ pc \in {"exit", "start"}

\* a file failed to parse after routes were found
C5_Witness ==
    /\ result.err
    /\ pc = "exit"
    /\ routes # <<>>

C7_OneFilePerRoute ==
    (pc = "done" /\ \A k \in 1..Len(renderLog) : renderLog[k].outcome = "written") =>
        \A k, l \in 1..Len(renderLog) :
            (\/ result.routes[k].Method # result.routes[l].Method
             \/ result.routes[k].Path # result.routes[l].Path)
                => renderLog[k].path # renderLog[l].path

StructPositions(name) ==
    {d \in 1..Len(AllDecls(tree)) :
        /\ AllDecls(tree)[d].kind = "type"
        /\ AllDecls(tree)[d].name = name
        /\ AllDecls(tree)[d].isStruct}

\* C10: the request body of a route is built from the first struct type of
\* that name in the order of the walk and, in a file, of the declarations;
\* a later one does not replace it and a type of that name that is not a
\* struct is passed over.
C10_FirstMatchWins ==
    Succeeded =>
        \A k \in 1..Len(result.routes) :
            result.routes[k].RequestBody # Nil =>
                LET name == result.routes[k].BodyType
                    first == CHOOSE d \in StructPositions(name) :
                                \A e \in StructPositions(name) : d <= e
                IN  /\ StructPositions(name) # {}
                    /\ result.routes[k].RequestBody.TypeName = name
                    /\ result.routes[k].RequestBody.Fields
                           = StructFields(AllDecls(tree)[first].fields)

\* a route resolved in a tree that has a non struct type of that name
\* first, and then two struct types of that name with different fields
C10_Witness ==
    /\ Succeeded
    /\ \E k \in 1..Len(result.routes) :
          /\ result.routes[k].RequestBody # Nil
          /\ LET name == result.routes[k].BodyType
             IN  /\ \E d, e \in StructPositions(name) :
                       AllDecls(tree)[d].fields # AllDecls(tree)[e].fields
                 /\ \E n \in 1..Len(AllDecls(tree)) :
                       /\ AllDecls(tree)[n].kind = "type"
                       /\ AllDecls(tree)[n].name = name
                       /\ ~AllDecls(tree)[n].isStruct
                       /\ \A d \in StructPositions(name) : n < d

(***************************************************************************)
(* Properties of extractAnnotations, under SpecAnnot.                      *)
(***************************************************************************)
\* the line holds an @ (a tag, or any other text with an @)
HasAt(line) == \E t \in 1..Len(line) : line[t] \in AtTokens

\* the lines of doc that hold the @description tag
DescLines == {k \in 1..Len(doc) : \E t \in 1..Len(doc[k]) : doc[k][t] = "@description"}

\* the line of the @description tag, when there is exactly one
DescStart == CHOOSE k \in DescLines : TRUE

\* the text of that line after the tag
DescFirstText ==
    LET line == doc[DescStart]
        at == CHOOSE t \in 1..Len(line) :
                 line[t] = "@description" /\ \A u \in 1..(t - 1) : line[u] # "@description"
    IN  SubSeq(line, at + 1, Len(line))

\* the last line of the block: the lines after the tag line up to the first
\* one that holds an @, or to the end of the comment
DescEnd ==
    CHOOSE e \in DescStart..Len(doc) :
        /\ \A j \in (DescStart + 1)..e : ~HasAt(doc[j])
        /\ e < Len(doc) => HasAt(doc[e + 1])

\* doc holds one @description block: one @description tag, with text
\* without @ after it on its line
IsDescBlock == Cardinality(DescLines) = 1 /\ ~HasAt(DescFirstText)

\* the text of the lines of the block, without the comment marker
BlockText ==
    [n \in 1..(DescEnd - DescStart + 1) |->
        IF n = 1 THEN DescFirstText
        ELSE LET line == doc[DescStart + n - 1]
             IN  IF Len(line) >= 2 /\ line[1] = "/" /\ line[2] = "/"
                 THEN SubSeq(line, 3, Len(line)) ELSE line]

RECURSIVE JoinTokens(_, _)
\* the token sequences texts, joined by the token sep
JoinTokens(texts, sep) ==
    IF texts = <<>> THEN <<>>
    ELSE IF Len(texts) = 1 THEN TrimSpace(texts[1])
    ELSE TrimSpace(texts[1]) \o <<sep>> \o JoinTokens(Tail(texts), sep)

RECURSIVE LinesWithNewline(_)
\* every text without its slashes, trimmed and followed by a newline
LinesWithNewline(texts) ==
    IF texts = <<>> THEN ""
    ELSE Concat(TrimSpace(SelectSeq(Head(texts), LAMBDA t : t # "/"))) \o "\n"
             \o LinesWithNewline(Tail(texts))

\* the loop of extractAnnotations is over
Extracted == pc = "extract" /\ ln > Len(doc)

EndLineText ==
    LET line == doc[DescEnd + 1]
        at == CHOOSE t \in 1..Len(line) :
                 line[t] \in AtTokens /\ \A u \in 1..(t - 1) : line[u] \notin AtTokens
    IN  SubSeq(line, 1, at - 1)

BodiesOnDisk ==
    {k \in 1..Len(renderLog) :
        /\ renderLog[k].outcome = "written"
        /\ \A l \in (k + 1)..Len(renderLog) : renderLog[l].path # renderLog[k].path
        /\ result.routes[k].RequestBody # Nil}

RECURSIVE FirstOccurrences(_, _)
\* the JSON names of the fields in the order of their first occurrence
FirstOccurrences(fields, seen) ==
    IF fields = <<>> THEN <<>>
    ELSE IF Head(fields).JSONName \in seen THEN FirstOccurrences(Tail(fields), seen)
    ELSE <<Head(fields).JSONName>>
             \o FirstOccurrences(Tail(fields), seen \cup {Head(fields).JSONName})

\* the default value of the last field with that JSON name
LastDefault(fields, key) ==
    LET last == CHOOSE n \in 1..Len(fields) :
                    /\ fields[n].JSONName = key
                    /\ \A m \in (n + 1)..Len(fields) : fields[m].JSONName # key
    IN  DefaultValue(fields[last].Type)

\* C11 as stated: the entries of the body of a request file are in the
\* order of the fields of the request body, keyed by JSON name, and of two
\* fields with one JSON name the default value of the later one is kept.
C11_BodyInFieldOrder ==
    \A k \in BodiesOnDisk :
        LET fields == result.routes[k].RequestBody.Fields
            keys == FirstOccurrences(fields, {})
        IN  disk[renderLog[k].path].body
                = [n \in 1..Len(keys) |->
                      [key |-> keys[n], value |-> LastDefault(fields, keys[n])]]

\* C11 as the code has it: the entries of the body of a request file are
\* in ascending order of their JSON names, one for each JSON name of the
\* fields, and of two fields with one JSON name the default value of the
\* later one is kept.
C11_BodySortedByJSONName ==
    \A k \in BodiesOnDisk :
        LET fields == result.routes[k].RequestBody.Fields
            body == disk[renderLog[k].path].body
        IN  /\ \A n \in 1..(Len(body) - 1) : KeyRank(body[n].key) < KeyRank(body[n + 1].key)
            /\ {body[n].key : n \in 1..Len(body)}
                   = {fields[n].JSONName : n \in 1..Len(fields)}
            /\ \A n \in 1..Len(body) : body[n].value = LastDefault(fields, body[n].key)

\* a body written for fields of which two have one JSON name with
\* different default values, and which are not in the order of their names
C11_Witness ==
    \E k \in BodiesOnDisk :
        LET fields == result.routes[k].RequestBody.Fields
        IN  /\ \E n, m \in 1..Len(fields) :
                  /\ n < m
                  /\ fields[n].JSONName = fields[m].JSONName
                  /\ DefaultValue(fields[n].Type) # DefaultValue(fields[m].Type)
            /\ \E n, m \in 1..Len(fields) :
                  n < m /\ KeyRank(fields[n].JSONName) > KeyRank(fields[m].JSONName)

(***************************************************************************)
(* Properties of the fields of a request body, under Spec.                 *)
(***************************************************************************)
\* the routes ParseDirectory returned with a request body
Resolved ==
    IF Succeeded
    THEN {k \in 1..Len(result.routes) : result.routes[k].RequestBody # Nil}
    ELSE {}

\* the field declarations of the struct type the request body of route k
\* was built from: the first struct type of that name in the walk
SourceFields(k) ==
    LET name == result.routes[k].BodyType
        first == CHOOSE d \in StructPositions(name) :
                    \A e \in StructPositions(name) : d <= e
    IN  AllDecls(tree)[first].fields

\* the field declaration a field of a request body has its name from
SourceOf(k, rf) ==
    CHOOSE n \in 1..Len(SourceFields(k)) :
        \E m \in 1..Len(SourceFields(k)[n].Names) : SourceFields(k)[n].Names[m] = rf.Name

SemanticTypes == {"string", "integer", "float", "boolean", "array", "map", "unknown"}

\* C12 as stated: the type of every field of a request body is one of
\* string, integer, float, boolean, array, map and unknown: array for an
\* array type, map for a map type, and unknown for whatever is neither these
\* nor a bare identifier (a pointer, a qualified type pkg.T).
C12_ClosedTypeSet ==
    \A k \in Resolved :
        \A n \in 1..Len(result.routes[k].RequestBody.Fields) :
            LET rf == result.routes[k].RequestBody.Fields[n]
                type == SourceFields(k)[SourceOf(k, rf)].Type
            IN  /\ rf.Type \in SemanticTypes
                /\ type.kind = "ArrayType" => rf.Type = "array"
                /\ type.kind = "MapType" => rf.Type = "map"
                /\ type.kind \notin {"Ident", "ArrayType", "MapType"} => rf.Type = "unknown"

\* C12 as the code has it: the type of every field of a request body is a
\* non-empty string: the identifier as written for a bare identifier, the
\* selected name T for a qualified type pkg.T, array for an array type, map
\* for a map type and unknown for anything else.
C12_TypeFromExpression ==
    \A k \in Resolved :
        \A n \in 1..Len(result.routes[k].RequestBody.Fields) :
            LET rf == result.routes[k].RequestBody.Fields[n]
                type == SourceFields(k)[SourceOf(k, rf)].Type
            IN  /\ rf.Type # ""
                /\ type.kind \in {"Ident", "SelectorExpr"} => rf.Type = type.name
                /\ type.kind = "ArrayType" => rf.Type = "array"
                /\ type.kind = "MapType" => rf.Type = "map"
                /\ type.kind \notin {"Ident", "SelectorExpr", "ArrayType", "MapType"}
                       => rf.Type = "unknown"

\* a request body built from fields with an array, a map, a qualified and
\* a pointer type
C12_Witness ==
    \E k \in Resolved :
        \A kind \in {"ArrayType", "MapType", "SelectorExpr", "StarExpr"} :
            \E n \in 1..Len(result.routes[k].RequestBody.Fields) :
                SourceFields(k)[SourceOf(k, result.routes[k].RequestBody.Fields[n])].Type.kind
                    = kind

RECURSIVE DeclaredNames(_)
\* the names the field declarations declare, in their order
DeclaredNames(fields) ==
    IF fields = <<>> THEN <<>>
    ELSE Head(fields).Names \o DeclaredNames(Tail(fields))

\* C13: a request body has exactly one field for each name the field
\* declarations of its type declare, in the order of the source; only the
\* declarations without name are left out.
C13_EveryNamedField ==
    \A k \in Resolved :
        [n \in 1..Len(result.routes[k].RequestBody.Fields) |->
            result.routes[k].RequestBody.Fields[n].Name]
            = DeclaredNames(SourceFields(k))

(***************************************************************************)
(* Properties of repeated calls of ParseDirectory, under SpecLib.          *)
(***************************************************************************)
\* old is a prefix of new
IsPrefix(old, new) == Len(old) <= Len(new) /\ SubSeq(new, 1, Len(old)) = old

RECURSIVE Repeated(_, _)
\* n times the sequence rs
Repeated(rs, n) == IF n = 0 THEN <<>> ELSE rs \o Repeated(rs, n - 1)

\* C14: the route list of a Parser only grows, no step removes or resets
\* its entries; and when ParseDirectory returns its routes for the k-th
\* time in k calls, they are the routes found by each call, one call after
\* the other.
C14_RoutesOnlyGrow ==
    [][/\ IsPrefix(Stubs(routes), Stubs(routes'))
       /\ (result'.returned /\ ~result'.err /\ \A n \in 1..Len(calls') : ~calls'[n])
              => Stubs(result'.routes)
                     = Repeated(StubsOf(AllDecls(tree)), Len(calls') + 1)]_vars

\* a later call returned the routes of the calls before it and its own
C14_Witness ==
    /\ Succeeded
    /\ Len(calls) >= 1
    /\ \A n \in 1..Len(calls) : ~calls[n]
    /\ Len(result.routes) >= 2 * Len(StubsOf(AllDecls(tree)))
    /\ Len(StubsOf(AllDecls(tree))) >= 2

====
